---- MODULE Spec2Model ----
(***************************************************************************)
(* A model of gtr-mcp: the convenience client (app/gtr_client/GtrClient.py), *)
(* the tool-facing client (app/client.py) and the tool adapter              *)
(* (app/mcp_server.py), run against an upstream Gateway to Research API     *)
(* whose behaviour is fixed for the length of a behaviour.                  *)
(***************************************************************************)
EXTENDS Integers, Sequences, FiniteSets, TLC

VARIABLES
    upstream,     \* the upstream API: what a GET yields, its projects, its body dialect
    client,       \* self.client of the convenience client: "open" or "closed"
    timeout,      \* self.timeout of the convenience client
    block,        \* the caller's position around a `with GtrClient(...)` block
    asyncClient,  \* the per-call httpx.AsyncClient of the tool-facing client
    pending,      \* the tool-facing call suspended at `await client.get(...)`
    last,         \* the most recent completed invocation and what it did
    adapter,      \* what the tool adapter handed to the invocation host
    saved         \* one earlier invocation, remembered for comparison

vars == <<upstream, client, timeout, block, asyncClient, pending, last, adapter, saved>>

----------------------------------------------------------------------------
(* Bounds of the model. *)

\* most projects the upstream holds in the listing-oriented specifications
MaxMatches == 12
\* longest `project` list served to the tool-facing client
MaxLen == 2

----------------------------------------------------------------------------
(* JSON values and Python values, tagged with their type. *)

None == [kind |-> "none"]
Str(s) == [kind |-> "str", v |-> s]
List(items) == [kind |-> "list", items |-> items]
Dict(fields) == [kind |-> "dict", fields |-> fields]

\* Python truthiness, as `if x:` and `x and y` test it
Truthy(v) ==
    CASE v.kind = "none" -> FALSE
      [] v.kind = "str" -> v.v # ""
      [] v.kind = "list" -> v.items # <<>>
      [] v.kind = "dict" -> DOMAIN v.fields # {}

\* dict.get(k, default)
Get(d, k, default) == IF k \in DOMAIN d.fields THEN d.fields[k] ELSE default

Min(a, b) == IF a <= b THEN a ELSE b
Max(a, b) == IF a >= b THEN a ELSE b

\* seq[:n], for any integer n (a negative n counts from the end)
SliceTo(seq, n) ==
    IF n >= 0 THEN SubSeq(seq, 1, Min(n, Len(seq)))
    ELSE SubSeq(seq, 1, Max(Len(seq) + n, 0))

----------------------------------------------------------------------------
(* Outcomes of an invocation. *)

Ok(value) == [ok |-> TRUE, value |-> value, error |-> "", status |-> 0]
Err(error, status) == [ok |-> FALSE, value |-> None, error |-> error, status |-> status]

NoResponse == [kind |-> "none", status |-> 0, json |-> FALSE, body |-> None, exc |-> ""]

\* what an invocation did: the GETs it issued, what came back, how it ended
Ran(gets, response, outcome) == [gets |-> gets, response |-> response, outcome |-> outcome]

----------------------------------------------------------------------------
(* The upstream API. *)

Faults == {"ok", "badjson", "http404", "http500", "timeout", "connect"}
Shapes == {"paged", "collapsed", "unpaged"}

\* a complete project, the i-th in relevance order
Item(i) ==
    Dict(("id" :> Str(ToString(i))) @@ ("title" :> Str("A")) @@ ("abstractText" :> Str("B")))

Corpus(n) == [i \in 1..n |-> Item(i)]

\* the projects matching a query text; the tool-facing client sends repr(q)
Matches(q) == IF q \in {"ml", "'ml'"} THEN upstream.corpus ELSE <<>>

\* page p of size s
Page(all, p, s) == SubSeq(all, (p - 1) * s + 1, Min(p * s, Len(all)))

\* the `project` field for a sequence of items, in the upstream's dialect
ProjectBody(items) ==
    IF upstream.shape = "collapsed" /\ Len(items) = 0 THEN Dict(<<>>)
    ELSE IF upstream.shape = "collapsed" /\ Len(items) = 1 THEN Dict("project" :> items[1])
    ELSE Dict("project" :> List(items))

Listing(all, params) ==
    IF upstream.shape = "unpaged" \/ "s" \notin DOMAIN params THEN all
    ELSE Page(all, IF "p" \in DOMAIN params THEN params["p"] ELSE 1, params["s"])

HttpOk(body) == [kind |-> "response", status |-> 200, json |-> TRUE, body |-> body, exc |-> ""]
HttpStatus(status) == [kind |-> "response", status |-> status, json |-> FALSE, body |-> None, exc |-> ""]
Transport(exc) == [kind |-> "transport", status |-> 0, json |-> FALSE, body |-> None, exc |-> exc]

KnownIds == {"1"}

\* the answer to a request when the upstream is healthy
Route(req) ==
    LET path == SelectSeq(req.path, LAMBDA segment : segment # "") IN
    IF path = <<"projects">> THEN
        HttpOk(ProjectBody(Listing(Matches(req.params["q"]), req.params)))
    ELSE IF Len(path) = 2 THEN
        IF path[2] \in KnownIds /\ Len(upstream.corpus) >= 1
        THEN HttpOk(upstream.corpus[1]) ELSE HttpStatus(404)
    ELSE
        IF path[2] \in KnownIds
        THEN HttpOk(ProjectBody(Listing(upstream.corpus, req.params))) ELSE HttpStatus(404)

\* the answer to a request
Respond(req) ==
    CASE upstream.fault = "ok" -> Route(req)
      [] upstream.fault = "badjson" -> [HttpOk(None) EXCEPT !.json = FALSE]
      [] upstream.fault = "http404" -> HttpStatus(404)
      [] upstream.fault = "http500" -> HttpStatus(500)
      [] upstream.fault = "timeout" -> Transport("ReadTimeout")
      [] upstream.fault = "connect" -> Transport("ConnectError")

----------------------------------------------------------------------------
(* httpx: sending on a client, and reading a response. *)

\* client.get(...): a closed client refuses to send, an open one issues the GET
ClientGet(c, req) ==
    IF c # "open" THEN Ran(<<>>, NoResponse, Err("RuntimeError", 0))
    ELSE LET r == Respond(req) IN
         IF r.kind = "transport" THEN Ran(<<req>>, r, Err(r.exc, 0))
         ELSE Ran(<<req>>, r, Ok(None))

IsSuccess(status) == status >= 200 /\ status <= 299

\* response.raise_for_status() and then response.json()
ReadJson(r) ==
    IF ~IsSuccess(r.status) THEN Err("HTTPStatusError", r.status)
    ELSE IF ~r.json THEN Err("JSONDecodeError", 0)
    ELSE Ok(r.body)

\* a variant that tries a failed request a second time
GetJsonRetrying(c, req) ==
    LET sent == ClientGet(c, req)
        first == IF ~sent.outcome.ok THEN sent
                 ELSE Ran(sent.gets, sent.response, ReadJson(sent.response))
    IN IF first.outcome.ok \/ first.gets = <<>> THEN first
       ELSE Ran(first.gets \o <<req>>, first.response, first.outcome)

\* get, raise_for_status, return response.json()
GetJson(c, req) ==
    LET sent == ClientGet(c, req) IN
    IF ~sent.outcome.ok THEN sent
    ELSE Ran(sent.gets, sent.response, ReadJson(sent.response))

----------------------------------------------------------------------------
(* The convenience client, app/gtr_client/GtrClient.py. *)

BASE_URL == "http://gtr.ukri.org/gtr/api"
MinPageSize == 10
MaxPageSize == 100

Request(path, params) ==
    [base |-> BASE_URL, path |-> path, params |-> params, headers |-> <<>>, timeout |-> timeout]

\* a variant whose lower bound is off by one
ValidPageSizeOffByOne(page_size) ==
    ~(page_size < MinPageSize - 1 \/ page_size > MaxPageSize)

ValidPageSize(page_size) == ~(page_size < MinPageSize \/ page_size > MaxPageSize)

\* a variant that ignores the letter's case
ValidSortOrderAnyCase(sort_order) == sort_order \in {"A", "D", "a", "d"}

ValidSortOrder(sort_order) == sort_order \in {"A", "D"}

\* a variant that sends the sort order, which has a default, on every request
SearchParamsAlwaysSo(query, page, page_size, search_fields, sort_field, sort_order) ==
    LET base == ("q" :> query) @@ ("p" :> page) @@ ("s" :> page_size) @@ ("so" :> sort_order)
        withF == IF Truthy(search_fields) THEN base @@ ("f" :> search_fields.items) ELSE base
    IN IF Truthy(sort_field) THEN withF @@ ("sf" :> sort_field.v) ELSE withF

\* the params dictionary built for the search request
SearchParams(query, page, page_size, search_fields, sort_field, sort_order) ==
    LET base == ("q" :> query) @@ ("p" :> page) @@ ("s" :> page_size)
        withF == IF Truthy(search_fields) THEN base @@ ("f" :> search_fields.items) ELSE base
    IN IF Truthy(sort_field)
       THEN withF @@ ("sf" :> sort_field.v) @@ ("so" :> sort_order)
       ELSE withF

search_projects(c, query, page, page_size, search_fields, sort_field, sort_order) ==
    IF ~ValidPageSize(page_size) THEN Ran(<<>>, NoResponse, Err("ValueError", 0))
    ELSE IF ~ValidSortOrder(sort_order) THEN Ran(<<>>, NoResponse, Err("ValueError", 0))
    ELSE GetJson(c, Request(<<"projects">>,
                 SearchParams(query, page, page_size, search_fields, sort_field, sort_order)))

get_project(c, project_id) == GetJson(c, Request(<<"projects", project_id>>, <<>>))

get_person_projects(c, person_id, page, page_size) ==
    GetJson(c, Request(<<"persons", person_id, "projects">>, ("p" :> page) @@ ("s" :> page_size)))

get_organisation_projects(c, organisation_id, page, page_size) ==
    GetJson(c, Request(<<"organisations", organisation_id, "projects">>,
                       ("p" :> page) @@ ("s" :> page_size)))

\* the page size get_top_results asks for
TopPageSize(limit) == Min(limit, MaxPageSize)

\* the `project` field of a parsed body as a sequence
ExtractProjects(response) ==
    IF "project" \in DOMAIN response.fields THEN
        IF response.fields["project"].kind = "dict" THEN <<response.fields["project"]>>
        ELSE IF response.fields["project"].kind = "list" THEN response.fields["project"].items
        ELSE <<>>
    ELSE <<>>

\* a variant that returns everything it found
TopSliceAll(projects, limit) == projects

\* the final `projects[:limit]`
TopSlice(projects, limit) == SliceTo(projects, limit)

get_top_results(c, query, limit, search_fields) ==
    LET found == search_projects(c, query, 1, TopPageSize(limit), search_fields, Str("score"), "D")
    IN IF ~found.outcome.ok THEN found
       ELSE Ran(found.gets, found.response,
                Ok(List(TopSlice(ExtractProjects(found.outcome.value), limit))))

----------------------------------------------------------------------------
(* The tool-facing client, app/client.py, and its record type. *)

USER_AGENT == "gtr-mcp-server/0.0.1"
GTR_API_BASE == "https://gtr.ukri.org/gtr/api/"
ToolTimeout == 5

\* repr(q), which the f-string `{q=}` puts after "q="
Repr(q) == "'" \o q \o "'"

\* the GET of get_projects: GTR_API_BASE + "/projects" + "/?q=" + repr(q)
ProjectsRequest(q) ==
    [base |-> GTR_API_BASE, path |-> <<"", "projects", "">>, params |-> ("q" :> Repr(q)),
     headers |-> ("User-Agent" :> USER_AGENT) @@ ("Accept" :> "application/json"),
     timeout |-> ToolTimeout]

\* Project(title=p["title"], abstractText=p["abstractText"], techAbstractText=p.get(...), ...)
Project(p) ==
    [title |-> p.fields["title"], abstractText |-> p.fields["abstractText"],
     techAbstractText |-> Get(p, "techAbstractText", None),
     potentialImpact |-> Get(p, "potentialImpact", None)]

\* a variant that asks only that both keys are present
KeepsPresent(p) == "title" \in DOMAIN p.fields /\ "abstractText" \in DOMAIN p.fields

\* the filter of the comprehension: p.get("title") and p.get("abstractText")
Keeps(p) == Truthy(Get(p, "title", None)) /\ Truthy(Get(p, "abstractText", None))

RECURSIVE Comprehension(_)
\* [Project(...) for p in project_list if ...] over a list of objects
Comprehension(project_list) ==
    IF project_list = <<>> THEN <<>>
    ELSE (IF Keeps(Head(project_list)) THEN <<Project(Head(project_list))>> ELSE <<>>)
         \o Comprehension(Tail(project_list))

\* body["project"] and the comprehension over it, whatever the field holds
Validate(body) ==
    IF "project" \notin DOMAIN body.fields THEN Err("KeyError", 0)
    ELSE LET project_list == body.fields["project"] IN
         CASE project_list.kind = "list" -> Ok(List(Comprehension(project_list.items)))
           [] project_list.kind = "dict" ->
                \* iterating a dict yields its keys, and a str has no .get
                IF DOMAIN project_list.fields = {} THEN Ok(List(<<>>))
                ELSE Err("AttributeError", 0)
           [] project_list.kind = "str" ->
                IF project_list.v = "" THEN Ok(List(<<>>)) ELSE Err("AttributeError", 0)
           [] project_list.kind = "none" -> Err("TypeError", 0)

\* what get_projects makes of the answer to its GET
get_projects(r) ==
    IF r.kind = "transport" THEN Err(r.exc, 0)
    ELSE LET body == ReadJson(r) IN
         IF ~body.ok THEN body ELSE Validate(body.value)

\* a variant that closes the client on the return path only
AsyncExitOnReturn(outcome) == IF outcome.ok THEN "closed" ELSE "open"

\* leaving `async with httpx.AsyncClient() as client:` by a return or an exception
AsyncExit(outcome) == "closed"

----------------------------------------------------------------------------
(* The tool adapter, app/mcp_server.py. *)

\* `response.json()` on what GtrClient.get_projects returned: a list has no .json
CallJson(value) == Err("AttributeError", 0)

\* the tool: an exception of the gateway propagates, a result goes through .json()
Tool(gateway) == IF ~gateway.ok THEN gateway ELSE CallJson(gateway.value)

----------------------------------------------------------------------------
(* The state, and the operations as actions. *)

NoPending == [active |-> FALSE, q |-> "", via |-> "", req |-> ProjectsRequest("")]
NoLast ==
    [op |-> "none", args |-> <<>>, clientBefore |-> "", gets |-> <<>>,
     response |-> NoResponse, outcome |-> Ok(None)]
NoAdapter == [done |-> FALSE, q |-> "", gateway |-> Ok(None), outcome |-> Ok(None)]
NoSaved ==
    [set |-> FALSE, op |-> "none", args |-> <<>>, gets |-> <<>>, outcome |-> Ok(None), after |-> 0]

\* one more invocation has completed since the remembered one (counted to 2)
Later(s) == IF s.set THEN [s EXCEPT !.after = Min(@ + 1, 2)] ELSE s

DefaultTimeout == 30

\* the state after GtrClient(timeout) is constructed, before any tool call
InitWith(Upstreams, Timeouts) ==
    /\ upstream \in Upstreams
    /\ client = "open"
    /\ timeout \in Timeouts
    /\ block = "outside"
    /\ asyncClient = "none"
    /\ pending = NoPending
    /\ last = NoLast
    /\ adapter = NoAdapter
    /\ saved = NoSaved

\* a variant in which every operation closes the client it used
ClientAfterCallClosed(c) == "closed"

\* self.client after an operation of the convenience client has used it
ClientAfterCall(c) == c

\* an invocation of the convenience client runs to its end; an exception that the
\* caller does not catch inside a `with` block leaves the block, and __exit__ closes
Invoke(op, args, ran) ==
    /\ \E caught \in (IF block = "inside" /\ ~ran.outcome.ok THEN BOOLEAN ELSE {TRUE}) :
        IF caught
        THEN client' = ClientAfterCall(client) /\ block' = block
        ELSE client' = "closed" /\ block' = "left"
    /\ last' = [op |-> op, args |-> args, clientBefore |-> client, gets |-> ran.gets,
                response |-> ran.response, outcome |-> ran.outcome]
    /\ saved' = Later(saved)
    /\ UNCHANGED <<upstream, timeout, asyncClient, pending, adapter>>

SearchProjects(query, page, page_size, search_fields, sort_field, sort_order) ==
    Invoke("search_projects",
           [query |-> query, page |-> page, page_size |-> page_size,
            search_fields |-> search_fields, sort_field |-> sort_field,
            sort_order |-> sort_order],
           search_projects(client, query, page, page_size, search_fields, sort_field, sort_order))

GetProject(project_id) ==
    Invoke("get_project", [project_id |-> project_id], get_project(client, project_id))

GetPersonProjects(person_id, page, page_size) ==
    Invoke("get_person_projects", [person_id |-> person_id, page |-> page, page_size |-> page_size],
           get_person_projects(client, person_id, page, page_size))

GetOrganisationProjects(organisation_id, page, page_size) ==
    Invoke("get_organisation_projects",
           [organisation_id |-> organisation_id, page |-> page, page_size |-> page_size],
           get_organisation_projects(client, organisation_id, page, page_size))

GetTopResults(query, limit, search_fields) ==
    Invoke("get_top_results", [query |-> query, limit |-> limit, search_fields |-> search_fields],
           get_top_results(client, query, limit, search_fields))

\* __enter__: returns self
EnterWith ==
    /\ block # "inside"
    /\ block' = "inside"
    /\ UNCHANGED <<upstream, client, timeout, asyncClient, pending, last, adapter, saved>>

\* the block ends normally: __exit__ calls close()
ExitWith ==
    /\ block = "inside"
    /\ block' = "left"
    /\ client' = "closed"
    /\ UNCHANGED <<upstream, timeout, asyncClient, pending, last, adapter, saved>>

\* close(), called by hand
Close ==
    /\ client' = "closed"
    /\ UNCHANGED <<upstream, timeout, block, asyncClient, pending, last, adapter, saved>>

\* get_projects up to its await: the per-call client is opened and the GET issued
GetProjectsStart(q, via) ==
    /\ ~pending.active
    /\ asyncClient' = "open"
    /\ pending' = [active |-> TRUE, q |-> q, via |-> via, req |-> ProjectsRequest(q)]
    /\ UNCHANGED <<upstream, client, timeout, block, last, adapter, saved>>

\* the GET is answered (or times out): get_projects ends, its client is closed, and
\* the tool, when it made the call, ends too
GetProjectsFinish ==
    /\ pending.active
    /\ LET r == Respond(pending.req)
           outcome == get_projects(r)
       IN /\ asyncClient' = AsyncExit(outcome)
          /\ last' = [op |-> "get_projects", args |-> [q |-> pending.q], clientBefore |-> "",
                      gets |-> <<pending.req>>, response |-> r, outcome |-> outcome]
          /\ adapter' = IF pending.via = "tool"
                        THEN [done |-> TRUE, q |-> pending.q, gateway |-> outcome,
                              outcome |-> Tool(outcome)]
                        ELSE adapter
    /\ pending' = NoPending
    /\ saved' = Later(saved)
    /\ UNCHANGED <<upstream, client, timeout, block>>

\* keep the last invocation for a later comparison
Remember ==
    /\ last.op # "none"
    /\ ~saved.set
    /\ saved' = [set |-> TRUE, op |-> last.op, args |-> last.args, gets |-> last.gets,
                 outcome |-> last.outcome, after |-> 0]
    /\ UNCHANGED <<upstream, client, timeout, block, asyncClient, pending, last, adapter>>

----------------------------------------------------------------------------
(* The inputs the specifications draw from. *)

Queries == {"ml", "zz"}
Ids == {"1", "9"}
PageSizes == {MinPageSize - 1, MinPageSize, MaxPageSize, MaxPageSize + 1}
FieldLists == {None, List(<<>>), List(<<"pro.t", "pro.a">>)}
SortFields == {None, Str(""), Str("score")}
SortOrders == {"A", "D", "a"}
Limits == (-1 .. MaxMatches + 1) \cup {MaxPageSize, MaxPageSize + 1}

Up(fault, corpus, shape) == [fault |-> fault, corpus |-> corpus, shape |-> shape]

\* upstream projects as the tool-facing client may meet them: each of title and
\* abstractText absent, empty or null, or a text; the optional fields absent, null or a text
TitleFields == {<<>>, "title" :> Str(""), "title" :> Str("A")}
AbstractFields == {<<>>, "abstractText" :> None, "abstractText" :> Str("B")}
OptionalFields ==
    {<<>>, "techAbstractText" :> Str("T"),
     ("techAbstractText" :> None) @@ ("potentialImpact" :> Str("I"))}
Objects == {Dict(t @@ a @@ o) : t \in TitleFields, a \in AbstractFields, o \in OptionalFields}
Lists(n) == UNION {[1..k -> Objects] : k \in 0..n}

----------------------------------------------------------------------------
(* SpecSearch: search_projects with every combination of arguments. *)

UpstreamsSearch == {Up("ok", Corpus(MinPageSize + 1), "paged")}

NextSearch ==
    \E query \in Queries, page \in {1, 2}, page_size \in PageSizes,
       search_fields \in FieldLists, sort_field \in SortFields, sort_order \in SortOrders :
       SearchProjects(query, page, page_size, search_fields, sort_field, sort_order)

SpecSearch == InitWith(UpstreamsSearch, {DefaultTimeout}) /\ [][NextSearch]_vars

----------------------------------------------------------------------------
(* SpecTop: get_top_results over upstreams of every size and dialect. *)

UpstreamsTop ==
    {Up("ok", Corpus(n), s) : n \in (0..MaxMatches) \cup {MaxPageSize + 1}, s \in Shapes}
    \cup {Up("http500", Corpus(1), "paged")}

NextTop ==
    \E query \in Queries, limit \in Limits : GetTopResults(query, limit, None)

SpecTop == InitWith(UpstreamsTop, {DefaultTimeout}) /\ [][NextTop]_vars

----------------------------------------------------------------------------
(* SpecTool: the tool and the tool-facing client over every upstream body. *)

UpstreamsTool ==
    {Up("ok", c, s) : c \in Lists(MaxLen), s \in {"paged", "collapsed"}}
    \cup {Up(f, <<>>, "paged") : f \in Faults}

NextTool ==
    \/ GetProjectsStart("ml", "tool")
    \/ GetProjectsFinish

SpecTool == InitWith(UpstreamsTool, {DefaultTimeout}) /\ [][NextTool]_vars

----------------------------------------------------------------------------
(* Spec: every operation of both clients, interleaved, over every fault. *)

Upstreams ==
    {Up(f, Corpus(1), "paged") : f \in Faults}
    \cup {Up("ok", Corpus(n), "collapsed") : n \in {0, 1, 2}}

Next ==
    \/ \E query \in Queries, page_size \in {MinPageSize - 1, MinPageSize},
          sort_order \in {"D", "a"} :
          SearchProjects(query, 1, page_size, None, None, sort_order)
    \/ \E project_id \in Ids : GetProject(project_id)
    \/ \E person_id \in Ids : GetPersonProjects(person_id, 1, MinPageSize)
    \/ \E organisation_id \in Ids : GetOrganisationProjects(organisation_id, 1, MinPageSize)
    \/ \E query \in Queries, limit \in {MinPageSize - 1, MinPageSize} :
          GetTopResults(query, limit, None)
    \/ \E q \in Queries, via \in {"tool", "direct"} : GetProjectsStart(q, via)
    \/ GetProjectsFinish
    \/ EnterWith
    \/ ExitWith
    \/ Close

Spec == InitWith(Upstreams, {DefaultTimeout}) /\ [][Next]_vars

----------------------------------------------------------------------------
(* SpecIdem: the same calls repeated against an upstream that does not change. *)

UpstreamsIdem ==
    {Up(f, Corpus(n), s) : f \in {"ok", "http500", "timeout"}, n \in {0, 1, MinPageSize + 1},
                           s \in {"paged", "collapsed"}}

NextIdem ==
    \/ \E query \in Queries, page \in {1, 2}, sort_field \in {None, Str("score")} :
          SearchProjects(query, page, MinPageSize, None, sort_field, "D")
    \/ \E limit \in {MinPageSize - 1, MinPageSize} : GetTopResults("ml", limit, None)
    \/ \E q \in Queries : GetProjectsStart(q, "direct")
    \/ GetProjectsFinish
    \/ Remember

SpecIdem == InitWith(UpstreamsIdem, {DefaultTimeout}) /\ [][NextIdem]_vars

----------------------------------------------------------------------------
(* The claims. *)

NonEmptyText(v) == v.kind = "str" /\ v.v # ""

\* an upstream element that has a non-empty title and a non-empty abstractText
HasBoth(p) ==
    /\ "title" \in DOMAIN p.fields /\ NonEmptyText(p.fields["title"])
    /\ "abstractText" \in DOMAIN p.fields /\ NonEmptyText(p.fields["abstractText"])

\* the answer was a 2xx response with a JSON object as its body
GotJsonObject(r) == r.kind = "response" /\ IsSuccess(r.status) /\ r.json /\ r.body.kind = "dict"

\* the answer's `project` field is a list
GotProjectList(r) ==
    /\ GotJsonObject(r)
    /\ "project" \in DOMAIN r.body.fields
    /\ r.body.fields["project"].kind = "list"

\* C1: when the upstream body's `project` is a list of objects, get_projects returns
\* one record for each element that has both a non-empty title and a non-empty
\* abstractText, in upstream order, carrying the element's title and abstractText and
\* its techAbstractText and potentialImpact (null where the element has none); no
\* record lacks a title or an abstractText, and no such element is dropped or moved.
C1_ValidatedSubsequence ==
    (last.op = "get_projects" /\ GotProjectList(last.response)) =>
        /\ last.outcome.ok
        /\ last.outcome.value.kind = "list"
        /\ LET items == last.response.body.fields["project"].items
               out == last.outcome.value.items
               kept == {i \in 1..Len(items) : HasBoth(items[i])}
           IN /\ Len(out) = Cardinality(kept)
              /\ \A i \in kept :
                    LET j == Cardinality({k \in kept : k <= i})
                        optional(key) == IF key \in DOMAIN items[i].fields
                                         THEN items[i].fields[key] ELSE None
                    IN /\ out[j].title = items[i].fields["title"]
                       /\ out[j].abstractText = items[i].fields["abstractText"]
                       /\ out[j].techAbstractText = optional("techAbstractText")
                       /\ out[j].potentialImpact = optional("potentialImpact")
              /\ \A j \in 1..Len(out) :
                    NonEmptyText(out[j].title) /\ NonEmptyText(out[j].abstractText)

\* the case of C1's example: a complete element followed by one with a title only
C1_Witness ==
    /\ last.op = "get_projects"
    /\ GotProjectList(last.response)
    /\ Len(last.response.body.fields["project"].items) = 2
    /\ ~HasBoth(last.response.body.fields["project"].items[2])
    /\ "title" \in DOMAIN last.response.body.fields["project"].items[2].fields
    /\ last.outcome.ok
    /\ last.outcome.value.items =
          <<[title |-> Str("A"), abstractText |-> Str("B"),
             techAbstractText |-> None, potentialImpact |-> None]>>

\* C2: whenever the gateway's get_projects ends with a list of records, the tool
\* ends successfully too and hands that same list to its caller.
C2_ToolReturnsGatewayList ==
    (adapter.done /\ adapter.gateway.ok) =>
        (adapter.outcome.ok /\ adapter.outcome.value = adapter.gateway.value)

\* C3: for every limit N >= 1, get_top_results against a healthy upstream returns a
\* sequence of at most N projects, and of exactly N when the upstream has at least N
\* projects matching the query.
C3_TopResultsLength ==
    (last.op = "get_top_results" /\ last.clientBefore = "open"
        /\ upstream.fault = "ok" /\ last.args.limit >= 1) =>
        /\ last.outcome.ok
        /\ Len(last.outcome.value.items) <= last.args.limit
        /\ (Len(Matches(last.args.query)) >= last.args.limit =>
                Len(last.outcome.value.items) = last.args.limit)

\* C4: search_projects with a page_size below 10 or above 100 fails with ValueError,
\* whatever the other arguments, and has issued no HTTP request.
C4_PageSizeRejected ==
    (last.op = "search_projects" /\ (last.args.page_size < 10 \/ last.args.page_size > 100)) =>
        /\ ~last.outcome.ok
        /\ last.outcome.error = "ValueError"
        /\ last.gets = <<>>

C4_Witness ==
    /\ last.op = "search_projects"
    /\ last.args.page_size = 9
    /\ last.args.sort_order = "D"
    /\ last.outcome.error = "ValueError"
    /\ last.gets = <<>>

\* C5: search_projects with a sort_order other than "A" and "D" fails with ValueError
\* and has issued no HTTP request, also when no sort field was supplied.
C5_SortOrderRejected ==
    (last.op = "search_projects" /\ last.args.sort_order \notin {"A", "D"}) =>
        /\ ~last.outcome.ok
        /\ last.outcome.error = "ValueError"
        /\ last.gets = <<>>

C5_Witness ==
    /\ last.op = "search_projects"
    /\ last.args.sort_order = "a"
    /\ last.args.sort_field = None
    /\ last.args.page_size \in 10..100
    /\ last.outcome.error = "ValueError"
    /\ last.gets = <<>>

\* a sort field was supplied: a field code, which the empty string is not
SuppliedSortField(sort_field) == sort_field.kind = "str" /\ sort_field.v # ""
\* at least one search-field code was supplied
SuppliedSearchFields(search_fields) == search_fields.kind = "list" /\ Len(search_fields.items) >= 1

\* C6: a valid search_projects call sends one request whose parameters hold q = query,
\* p = page and s = page_size; f exactly when at least one search-field code was
\* supplied, and then those codes; sf and so exactly when a sort field was supplied,
\* and then that field and the sort order: so is never sent without sf.
C6_RequestParameters ==
    (last.op = "search_projects" /\ last.clientBefore = "open"
        /\ last.args.page_size \in 10..100 /\ last.args.sort_order \in {"A", "D"}) =>
        /\ Len(last.gets) = 1
        /\ LET params == last.gets[1].params
               args == last.args
           IN /\ {"q", "p", "s"} \subseteq DOMAIN params
              /\ DOMAIN params \subseteq {"q", "p", "s", "f", "sf", "so"}
              /\ params["q"] = args.query
              /\ params["p"] = args.page
              /\ params["s"] = args.page_size
              /\ ("f" \in DOMAIN params) <=> SuppliedSearchFields(args.search_fields)
              /\ ("f" \in DOMAIN params) => params["f"] = args.search_fields.items
              /\ ("sf" \in DOMAIN params) <=> SuppliedSortField(args.sort_field)
              /\ ("so" \in DOMAIN params) <=> SuppliedSortField(args.sort_field)
              /\ ("sf" \in DOMAIN params) =>
                    (params["sf"] = args.sort_field.v /\ params["so"] = args.sort_order)

\* a request sent with the default sort order and no sort field: neither sf nor so
C6_Witness ==
    /\ last.op = "search_projects"
    /\ last.args.sort_field = None
    /\ last.args.sort_order = "D"
    /\ last.args.search_fields = List(<<>>)
    /\ Len(last.gets) = 1
    /\ DOMAIN last.gets[1].params = {"q", "p", "s"}

\* C7: on a successful upstream response get_top_results returns a sequence: the one
\* object when `project` is a single object, the first `limit` elements in upstream
\* order when it is a list, and the empty sequence when the field is absent.
C7_TopResultsNormalised ==
    (last.op = "get_top_results" /\ GotJsonObject(last.response)) =>
        /\ last.outcome.ok
        /\ last.outcome.value.kind = "list"
        /\ LET body == last.response.body.fields
               out == last.outcome.value.items
               limit == last.args.limit
           IN /\ "project" \notin DOMAIN body => out = <<>>
              /\ ("project" \in DOMAIN body /\ body["project"].kind = "dict") =>
                    (limit >= 1 => out = <<body["project"]>>)
              /\ ("project" \in DOMAIN body /\ body["project"].kind = "list") =>
                    /\ Len(out) = Min(limit, Len(body["project"].items))
                    /\ \A i \in 1..Len(out) : out[i] = body["project"].items[i]

\* an upstream list longer than the limit, cut to the limit
C7_Witness ==
    /\ last.op = "get_top_results"
    /\ GotProjectList(last.response)
    /\ Len(last.response.body.fields["project"].items) > last.args.limit
    /\ last.outcome.ok
    /\ Len(last.outcome.value.items) = last.args.limit

\* C8: no invocation issues more than one GET; when the GET is answered with a
\* non-2xx status the invocation fails carrying that status and returns nothing, and
\* when it fails in transport the invocation fails and returns nothing.
C8_SingleAttempt ==
    last.op # "none" =>
        /\ Len(last.gets) <= 1
        /\ (last.response.kind = "response" /\ ~IsSuccess(last.response.status)) =>
              /\ ~last.outcome.ok
              /\ last.outcome.status = last.response.status
              /\ last.outcome.value = None
        /\ last.response.kind = "transport" =>
              (~last.outcome.ok /\ last.outcome.value = None)

\* a search answered with status 500: one GET, a failure carrying 500
C8_Witness ==
    /\ last.op = "search_projects"
    /\ last.response.kind = "response"
    /\ last.response.status = 500
    /\ Len(last.gets) = 1
    /\ ~last.outcome.ok
    /\ last.outcome.status = 500

ConvenienceOps ==
    {"search_projects", "get_project", "get_person_projects", "get_organisation_projects",
     "get_top_results"}

\* C9: the per-call client of get_projects is closed whenever no call is in flight,
\* however the call ended; the convenience client is closed once its `with` block has
\* been left, normally or by an exception; and nothing is sent on a closed client.
C9_ClientsClosed ==
    /\ ~pending.active => asyncClient # "open"
    /\ block = "left" => client = "closed"
    /\ (last.op \in ConvenienceOps /\ last.clientBefore = "closed") => last.gets = <<>>

\* the block was left by the exception of a failed request, after a tool-facing call
\* had failed too
C9_Witness ==
    /\ block = "left"
    /\ client = "closed"
    /\ last.op \in ConvenienceOps
    /\ last.clientBefore = "open"
    /\ ~last.outcome.ok
    /\ Len(last.gets) = 1
    /\ adapter.done
    /\ ~adapter.gateway.ok
    /\ asyncClient = "closed"

\* C10: a call repeated with the same arguments, after any other calls, against the
\* unchanged upstream sends the same request and ends in the same outcome as before,
\* and the convenience client is left as it was.
C10_Idempotent ==
    /\ client = "open"
    /\ (saved.set /\ saved.after >= 1 /\ saved.op = last.op /\ saved.args = last.args) =>
          (last.outcome = saved.outcome /\ last.gets = saved.gets)

\* the remembered search and, two or more calls later, the same search again
C10_Witness ==
    /\ saved.set
    /\ saved.after = 2
    /\ saved.op = "search_projects"
    /\ last.op = "search_projects"
    /\ saved.args = last.args
    /\ last.outcome.ok
    /\ "project" \in DOMAIN last.outcome.value.fields

====
